---- MODULE Spec2Model ----
(***************************************************************************)
(* Model of reportengine/base.py: the Report base class and its metaclass, *)
(* the chart selection and column rearrangement, the default filter mask,  *)
(* the filter forms, the queryset/model reports and the SQL report.        *)
(*                                                                         *)
(* Each part of base.py has its own specification over the shared          *)
(* variables; the variables of the other parts keep their idle values.     *)
(***************************************************************************)
EXTENDS Integers, Sequences, FiniteSets, TLC

VARIABLES
    charts,         \* Report.charts of the report under test (base.py:109)
    chart_ret,      \* last call of Report.get_charts: its argument and its result
    classes,        \* the report classes defined so far, in definition order
    default_mask,   \* Report.default_mask (base.py:86)
    mask_ret,       \* last call of Report.get_default_mask
    rearr,          \* last call of a callable made by rearrange_columns
    lk,             \* the running get_lookup_field call chain
    form_ret,       \* last call of a get_filter_form
    mr,             \* the ModelReport class, its instance and the last get_queryset
    sql             \* the SQLReport, its cursors and the last data call

vars == <<charts, chart_ret, classes, default_mask, mask_ret, rearr, lk, form_ret, mr, sql>>

----------------------------------------------------------------------------
(* Python helpers *)

RECURSIVE SumLists(_)
\* sum(list_of_lists, []): left-to-right concatenation
SumLists(ls) ==
    IF ls = <<>> THEN <<>>
    ELSE SumLists(SubSeq(ls, 1, Len(ls) - 1)) \o ls[Len(ls)]

Range(s) == {s[i] : i \in DOMAIN s}

SeqsUpTo(S, n) == UNION {[1..k -> S] : k \in 0..n}

\* seq[j] with Python's negative indices; InRange(seq, j) is false where Python raises IndexError
InRange(seq, j) == j >= -Len(seq) /\ j < Len(seq)
PyIndex(seq, j) == IF j >= 0 THEN seq[j + 1] ELSE seq[Len(seq) + j + 1]

----------------------------------------------------------------------------
(* Bounds *)

MaxGroups == 2          \* chart groups declared by a report
MaxGroupLen == 2        \* chart callables in one chart group

----------------------------------------------------------------------------
(* Report.get_charts and rearrange_columns (decorator part) *)

Charts == {"foo_chart", "bar_chart"}

\* the output format classes named by base.py:81 derive from OutputFormat
Ancestors(cls) == {cls, "OutputFormat"}
IsInstance(of, cls) == cls \in Ancestors(of.cls)

\* an output format instance: its class and the charts its can_embed accepts
OutputFormats == [cls : {"AdminOutputFormat", "CSVOutputFormat"}, embeds : SUBSET Charts]
can_embed(of, chart) == chart \in of.embeds

\* A chart filter by what the code asks of it: its truth value, whether it
\* is callable (then accepts = the charts it returns true on), whether it is
\* iterable (then items = its elements).
NoFilter      == [truthy |-> FALSE, callable |-> FALSE, iterable |-> FALSE, accepts |-> {}, items |-> {}]
EmptyTuple    == [truthy |-> FALSE, callable |-> FALSE, iterable |-> TRUE,  accepts |-> {}, items |-> {}]
Predicate(S)  == [truthy |-> TRUE,  callable |-> TRUE,  iterable |-> FALSE, accepts |-> S,  items |-> {}]
ClassTuple(K) == [truthy |-> TRUE,  callable |-> FALSE, iterable |-> TRUE,  accepts |-> {}, items |-> K]
OtherTruthy   == [truthy |-> TRUE,  callable |-> FALSE, iterable |-> FALSE, accepts |-> {}, items |-> {}]
\* an object that is both callable and iterable
CallableIterable(S, K) ==
    [truthy |-> TRUE, callable |-> TRUE, iterable |-> TRUE, accepts |-> S, items |-> K]

ChartFilters ==
    {NoFilter, EmptyTuple, OtherTruthy, Predicate({"foo_chart"}), Predicate({}),
     ClassTuple({"AdminOutputFormat"}), ClassTuple({"CSVOutputFormat", "OutputFormat"}),
     CallableIterable({"bar_chart"}, {"CSVOutputFormat"})}

\* every chart list with the two plainest filters, every filter with one chart list
ChartGroups ==
    [charts : SeqsUpTo(Charts, MaxGroupLen),
     column_indices : {<<>>},
     chart_filter : {NoFilter, ClassTuple({"AdminOutputFormat"})}]
    \cup
    [charts : {<<"foo_chart", "bar_chart">>},
     column_indices : {<<1, 0>>},
     chart_filter : ChartFilters]

\* rearrange_columns(*column_indices)(chart_callable): the chart itself when
\* column_indices is empty, else the decorated callable (closure over both)
columns_decorator(column_indices, chart_callable) ==
    IF column_indices = <<>>
    THEN [chart |-> chart_callable, column_indices |-> <<>>, decorated |-> FALSE]
    ELSE [chart |-> chart_callable, column_indices |-> column_indices, decorated |-> TRUE]

\* the condition without the can_embed conjunct
ChartSelected_IgnoreEmbed(chart, chart_filter, output_format) ==
    \/ ~chart_filter.truthy
    \/ (chart_filter.callable /\ chart \in chart_filter.accepts)
    \/ (chart_filter.iterable /\ \E output_format_class \in chart_filter.items :
                                     IsInstance(output_format, output_format_class))

\* the condition of the inner comprehension, base.py:117-122
ChartSelected(chart, chart_filter, output_format) ==
    /\ \/ ~chart_filter.truthy
       \/ (chart_filter.callable /\ chart \in chart_filter.accepts)
       \/ (chart_filter.iterable /\ \E output_format_class \in chart_filter.items :
                                        IsInstance(output_format, output_format_class))
    /\ can_embed(output_format, chart)

\* the inner list built back to front
GroupCharts_Reversed(group, output_format) ==
    LET kept == SelectSeq(group.charts,
                          LAMBDA chart : ChartSelected(chart, group.chart_filter, output_format))
    IN [i \in 1..Len(kept) |->
           columns_decorator(group.column_indices, kept[Len(kept) + 1 - i])]

\* the inner list of one chart group
GroupCharts(group, output_format) ==
    LET kept == SelectSeq(group.charts,
                          LAMBDA chart : ChartSelected(chart, group.chart_filter, output_format))
    IN [i \in 1..Len(kept) |-> columns_decorator(group.column_indices, kept[i])]

GetCharts(self_charts, output_format) ==
    SumLists([g \in 1..Len(self_charts) |-> GroupCharts(self_charts[g], output_format)])

NoChartCall == [called |-> FALSE, output_format |-> [cls |-> "AdminOutputFormat", embeds |-> {}],
                result |-> <<>>]

get_charts(output_format) ==
    /\ chart_ret' = [called |-> TRUE, output_format |-> output_format,
                     result |-> GetCharts(charts, output_format)]
    /\ UNCHANGED <<charts, classes, default_mask, mask_ret, rearr, lk, form_ret, mr, sql>>

----------------------------------------------------------------------------
(* ReportMetaclass.__new__ and the class attributes labels/columns *)

MaxClasses == 2         \* report classes defined below Report
MaxLabels == 2          \* labels (or columns) authored in one class body

LabelNames == {"foo", "bar"}
LabelLists == SeqsUpTo(LabelNames, MaxLabels)
\* a column tuple (column_id, [data_type]); base.py:72-77
ColumnTuples == {<<"foo">>, <<"bar", "number">>}
ColumnLists == SeqsUpTo(ColumnTuples, MaxLabels)

\* a class body: which of labels/columns it assigns, and the values
ClassBodies ==
    [authored : {{}}, labels : {<<>>}, columns : {<<>>}]
    \cup [authored : {{"labels"}}, labels : LabelLists, columns : {<<>>}]
    \cup [authored : {{"columns"}}, labels : {<<>>}, columns : ColumnLists]

\* attribute lookup on the new class: its own body first, then its base class
ClassAttr(body, parent, name) ==
    IF name \in body.authored THEN body[name] ELSE parent[name]

\* base.py:54-55; an empty list is falsy
ReportMetaclass(body, parent, parent_index) ==
    LET labels0  == ClassAttr(body, parent, "labels")
        columns0 == ClassAttr(body, parent, "columns")
        columns1 == IF columns0 # <<>> THEN columns0
                    ELSE [i \in 1..Len(labels0) |-> <<labels0[i]>>]
        labels1  == IF labels0 # <<>> THEN labels0
                    ELSE [i \in 1..Len(columns1) |-> columns1[i][1]]
    IN [parent |-> parent_index, authored |-> body.authored,
        labels |-> labels1, columns |-> columns1]

\* class Report(object): labels = [] and columns = [] (base.py:70, 77)
ReportClass ==
    [parent |-> 0, authored |-> {"labels", "columns"}, labels |-> <<>>, columns |-> <<>>]

\* "class X(<classes[parent_index]>): <body>"
define_class(parent_index, body) ==
    /\ Len(classes) < MaxClasses + 1
    /\ classes' = Append(classes, ReportMetaclass(body, classes[parent_index], parent_index))
    /\ UNCHANGED <<charts, chart_ret, default_mask, mask_ret, rearr, lk, form_ret, mr, sql>>

----------------------------------------------------------------------------
(* Report.get_default_mask *)

MaskKeys == {"date__gte", "date__lt"}
\* Python values by their repr; the first three are falsy
PyValues == {"0", "''", "None", "1", "'2024-03-15'"}
Falsy == {"0", "''", "None"}

\* A declared value: a plain value, or a zero-argument callable that returns
\* `value` when called.
MaskObjects == [callable : BOOLEAN, value : PyValues]
Plain(x) == [callable |-> FALSE, value |-> x]
Call(v) == Plain(v.value)
\* a function object is truthy
Truthy(v) == v.callable \/ v.value \notin Falsy

\* callable(v) and v() or v      (base.py:134)
ResolveMaskValue(v) ==
    IF v.callable
    THEN (IF Truthy(Call(v)) THEN Call(v) ELSE v)
    ELSE v

DefaultMasks == UNION {[K -> MaskObjects] : K \in SUBSET MaskKeys}

NoMaskCall == [called |-> FALSE, m |-> <<>>]

get_default_mask ==
    /\ mask_ret' = [called |-> TRUE,
                    m |-> [k \in DOMAIN default_mask |-> ResolveMaskValue(default_mask[k])]]
    /\ UNCHANGED <<charts, chart_ret, classes, default_mask, rearr, lk, form_ret, mr, sql>>

----------------------------------------------------------------------------
(* rearrange_columns: calling the callable it produces *)

MaxCol == 3             \* column indices range over -MaxCol..MaxCol
MaxIndices == 2         \* length of column_indices

Schemas == {<<"a", "b", "c">>, <<"a", "b">>}
DataSets == {<<>>, <<<<1, 2, 3>>, <<4, 5, 6>>>>, <<<<1, 2, 3>>>>, <<<<1, 2>>, <<4, 5>>>>}
\* the extra positional and keyword arguments of the call
ExtraArgs == {<<>>, <<"title=Sales">>}
ColumnIndices == SeqsUpTo((-MaxCol)..MaxCol, MaxIndices)

\* the comprehensions of base.py:43-44 raise IndexError on an index out of range
SchemaInRange(column_indices, schema) ==
    \A k \in DOMAIN column_indices : InRange(schema, column_indices[k])
DataInRange(column_indices, data) ==
    \A r \in DOMAIN data : \A k \in DOMAIN column_indices : InRange(data[r], column_indices[k])

\* [schema[j] for j in column_indices]
RearrangedSchema(column_indices, schema) ==
    [k \in 1..Len(column_indices) |-> PyIndex(schema, column_indices[k])]
\* the rows handed on as they are
RearrangedData_Unarranged(column_indices, data) == data

\* [[row[j] for j in column_indices] for row in data]
RearrangedData(column_indices, data) ==
    [r \in 1..Len(data) |->
        [k \in 1..Len(column_indices) |-> PyIndex(data[r], column_indices[k])]]

\* what a chart callable returns: a chart object built from what it was given
ChartObject(chart, schema, data, args) ==
    [chart |-> chart, schema |-> schema, data |-> data, args |-> args]
NoChartObject == ChartObject("None", <<>>, <<>>, <<>>)

\* Calling `callable` (a value made by columns_decorator) with (schema, data, *args, **kwargs):
\* the calls the chart callable receives, the returned value, and whether
\* the call raised IndexError.
CallChart(callable, schema, data, args) ==
    IF ~callable.decorated
    THEN [raised |-> FALSE,
          calls |-> <<[schema |-> schema, data |-> data, args |-> args]>>,
          result |-> ChartObject(callable.chart, schema, data, args)]
    ELSE IF ~SchemaInRange(callable.column_indices, schema)
            \/ ~DataInRange(callable.column_indices, data)
    THEN [raised |-> TRUE, calls |-> <<>>, result |-> NoChartObject]
    ELSE LET rearranged_schema == RearrangedSchema(callable.column_indices, schema)
             rearranged_data == RearrangedData(callable.column_indices, data)
         IN [raised |-> FALSE,
             calls |-> <<[schema |-> rearranged_schema, data |-> rearranged_data, args |-> args]>>,
             result |-> ChartObject(callable.chart, rearranged_schema, rearranged_data, args)]

\* rearr holds the caller's objects (column_indices, schema, data, args) and the outcome
RearrIdle ==
    [column_indices |-> <<>>, schema |-> <<>>, data |-> <<>>, args |-> <<>>,
     called |-> FALSE, raised |-> FALSE, calls |-> <<>>, result |-> NoChartObject]

\* rearrange_columns(*column_indices)(chart)(schema, data, *args, **kwargs)
decorated_callable(chart) ==
    /\ ~rearr.called
    /\ LET out == CallChart(columns_decorator(rearr.column_indices, chart),
                            rearr.schema, rearr.data, rearr.args)
       IN rearr' = [rearr EXCEPT !.called = TRUE, !.raised = out.raised,
                                 !.calls = out.calls, !.result = out.result]
    /\ UNCHANGED <<charts, chart_ret, classes, default_mask, mask_ret, lk, form_ret, mr, sql>>

----------------------------------------------------------------------------
(* get_model_field and get_lookup_field *)

MaxParts == 3           \* '__'-separated parts of a lookup

Models == {"Employee", "Department"}

\* model._meta: Employee.manager -> Employee (self-referential),
\* Employee.department -> Department, Department.head -> Employee (a cycle)
Meta ==
    [Employee |->
        [manager    |-> [name |-> "manager", related |-> TRUE, to |-> "Employee"],
         department |-> [name |-> "department", related |-> TRUE, to |-> "Department"],
         name       |-> [name |-> "name", related |-> FALSE, to |-> "None"]],
     Department |->
        [head  |-> [name |-> "head", related |-> TRUE, to |-> "Employee"],
         title |-> [name |-> "title", related |-> FALSE, to |-> "None"]]]

\* the empty part comes from ''.split('__') == ['']
PartNames == {"manager", "department", "name", "head", "title", ""}
Lookups == SeqsUpTo(PartNames, MaxParts) \ {<<>>}

\* model._meta.get_field(name) raises FieldDoesNotExist for an unknown name
HasField(model, name) == name \in DOMAIN Meta[model]
get_model_field(model, name) == Meta[model][name]

\* the test without the length check
LookupReturns_NoLengthCheck(field, parts) == ~field.related

\* not isinstance(field, RelatedField) or len(parts) == 1      (base.py:24)
LookupReturns(field, parts) == ~field.related \/ Len(parts) = 1

\* '__'.join(parts[1:]).split('__')
NextLookup(parts) == IF Len(parts) = 1 THEN <<"">> ELSE Tail(parts)

NoField == [name |-> "None", related |-> FALSE, to |-> "None"]

\* lk: one frame of the call chain. original is the lookup of the first
\* call (kept for reference, the code passes it along unused).
LookupStart(model, parts) ==
    [start |-> model, original |-> parts, model |-> model, lookup |-> parts,
     calls |-> 0, done |-> FALSE, error |-> FALSE, field |-> NoField]

LookupIdle == [LookupStart("Employee", <<"">>) EXCEPT !.done = TRUE]

\* one invocation of get_lookup_field(model, original, lookup)
get_lookup_field ==
    /\ ~lk.done
    /\ LET parts == lk.lookup IN
       IF ~HasField(lk.model, parts[1])
       THEN lk' = [lk EXCEPT !.calls = @ + 1, !.done = TRUE, !.error = TRUE]
       ELSE LET field == get_model_field(lk.model, parts[1]) IN
            IF LookupReturns(field, parts)
            THEN lk' = [lk EXCEPT !.calls = @ + 1, !.done = TRUE, !.field = field]
            ELSE lk' = [lk EXCEPT !.calls = @ + 1, !.model = field.to,
                                  !.lookup = NextLookup(parts)]
    /\ UNCHANGED <<charts, chart_ret, classes, default_mask, mask_ret, rearr, form_ret, mr, sql>>

RECURSIVE GetLookupField(_, _)
\* the same function as one value: (field, model), or error on FieldDoesNotExist
GetLookupField(model, parts) ==
    IF ~HasField(model, parts[1])
    THEN [error |-> TRUE, field |-> NoField, model |-> model]
    ELSE LET field == get_model_field(model, parts[1]) IN
         IF LookupReturns(field, parts)
         THEN [error |-> FALSE, field |-> field, model |-> model]
         ELSE GetLookupField(field.to, NextLookup(parts))

----------------------------------------------------------------------------
(* get_filter_form of Report, QuerySetReport and SQLReport *)

MaxFilters == 2         \* entries of list_filter, or of query_params

\* Form field names are lookups split at '__'.
\* A list_filter entry is a FilterControl instance (with the fields it
\* provides) or a lookup string.
FilterSpecs ==
    {[control |-> TRUE,  lookup |-> <<"status">>],
     [control |-> FALSE, lookup |-> <<"name">>],
     [control |-> FALSE, lookup |-> <<"department", "title">>],
     [control |-> FALSE, lookup |-> <<"manager">>],
     [control |-> FALSE, lookup |-> <<"salary">>]}
ListFilters == SeqsUpTo(FilterSpecs, MaxFilters)

\* (name, label, datatype) tuples
QueryParams == {<<"date", "Date", "datetime">>, <<"age", "Age", "integer">>}
QueryParamLists == SeqsUpTo(QueryParams, MaxFilters)

\* the submitted data, by the names whose submitted value does not validate
FormData == SUBSET {<<"status">>, <<"name">>, <<"date">>}

\* forms.Form(data=data): bound, no fields, not yet cleaned
NewForm(data) == [data |-> data, fields |-> {}, cleaned |-> FALSE, errors |-> {}]
\* form.full_clean(): every field is validated against the data
full_clean(form) ==
    [form EXCEPT !.cleaned = TRUE, !.errors = form.fields \cap form.data]

FormReturned(strategy, form) ==
    [called |-> TRUE, strategy |-> strategy, raised |-> FALSE, form |-> form]
FormRaised(strategy) ==
    [called |-> TRUE, strategy |-> strategy, raised |-> TRUE, form |-> NewForm({})]
NoFormCall == [called |-> FALSE, strategy |-> "None", raised |-> FALSE, form |-> NewForm({})]

\* FilterControl.create_from_modelfield(mfi, f): a control providing the
\* field f, or None for the model fields in no_control
create_from_modelfield(mfi, f, no_control) ==
    IF mfi.name \in no_control THEN {} ELSE {f}

\* FilterControl.create_from_datatype(q[2], q[0], q[1]).get_fields()
create_from_datatype(q) == {<<q[1]>>}

RECURSIVE ListFilterFields(_, _, _)
\* the loop of base.py:163-173: the fields added to the form, or "raised"
\* when self.queryset is None or the lookup names no field
ListFilterFields(list_filter, queryset_model, no_control) ==
    IF list_filter = <<>> THEN [raised |-> FALSE, fields |-> {}]
    ELSE LET f == Head(list_filter)
             rest == ListFilterFields(Tail(list_filter), queryset_model, no_control)
         IN IF f.control
            THEN [rest EXCEPT !.fields = @ \cup {f.lookup}]
            ELSE IF queryset_model = "None" THEN [raised |-> TRUE, fields |-> {}]
            ELSE LET found == GetLookupField(queryset_model, f.lookup) IN
                 IF found.error THEN [raised |-> TRUE, fields |-> {}]
                 ELSE [rest EXCEPT !.fields =
                          @ \cup create_from_modelfield(found.field, f.lookup, no_control)]

\* Report.get_filter_form (base.py:137-139)
ReportFilterForm(data) == FormReturned("Report", NewForm(data))

\* QuerySetReport.get_filter_form (base.py:159-175)
QuerySetReportFilterForm(list_filter, queryset_model, no_control, data) ==
    LET added == ListFilterFields(list_filter, queryset_model, no_control) IN
    IF added.raised THEN FormRaised("QuerySetReport")
    ELSE FormReturned("QuerySetReport",
                      full_clean([NewForm(data) EXCEPT !.fields = added.fields]))

\* SQLReport.get_filter_form (base.py:244-251)
SQLReportFilterForm(query_params, data) ==
    FormReturned("SQLReport",
        full_clean([NewForm(data) EXCEPT !.fields =
            UNION {create_from_datatype(query_params[i]) : i \in DOMAIN query_params}]))

OtherThanForm == <<charts, chart_ret, classes, default_mask, mask_ret, rearr, lk, mr, sql>>

Report_get_filter_form(data) ==
    /\ form_ret' = ReportFilterForm(data)
    /\ UNCHANGED OtherThanForm

QuerySetReport_get_filter_form(list_filter, queryset_model, no_control, data) ==
    /\ form_ret' = QuerySetReportFilterForm(list_filter, queryset_model, no_control, data)
    /\ UNCHANGED OtherThanForm

SQLReport_get_filter_form(query_params, data) ==
    /\ form_ret' = SQLReportFilterForm(query_params, data)
    /\ UNCHANGED OtherThanForm

----------------------------------------------------------------------------
(* QuerySetReport.get_queryset / get_rows and ModelReport *)

FilterMaps == SUBSET {"status=active", "year=2024", "dept=1"}
\* None and '' are falsy
OrderBys == {"None", "", "-created"}

\* A queryset by where it comes from: base is "configured" (the class
\* attribute queryset), "all" (model.objects.all()) or "explicit" (the
\* caller's argument); made is the moment it was built.
QuerySet(base, made) == [base |-> base, made |-> made, filters |-> <<>>, order_by |-> <<>>]
NoneQuerySet == QuerySet("None", "None")
ExplicitQuerySet == QuerySet("explicit", "caller")
ConfiguredQuerySet == QuerySet("configured", "class")

qs_filter(queryset, filters) == [queryset EXCEPT !.filters = Append(@, filters)]
qs_order_by(queryset, order_by) == [queryset EXCEPT !.order_by = Append(@, order_by)]

\* self.queryset: the instance attribute when __init__ has set it, else the class attribute
SelfQueryset(self) ==
    IF self.inst_queryset # NoneQuerySet THEN self.inst_queryset ELSE self.cls_queryset

\* QuerySetReport.get_queryset (base.py:177-183); None.filter raises AttributeError
QuerySetReportGetQueryset(self, filters, order_by, queryset) ==
    LET queryset1 == IF queryset = NoneQuerySet THEN SelfQueryset(self) ELSE queryset IN
    IF queryset1 = NoneQuerySet THEN [raised |-> TRUE, queryset |-> NoneQuerySet]
    ELSE LET queryset2 == qs_filter(queryset1, filters) IN
         [raised |-> FALSE,
          queryset |-> IF order_by \notin {"None", ""}
                       THEN qs_order_by(queryset2, order_by) ELSE queryset2]

\* ModelReport.get_queryset (base.py:196-199)
ModelReportGetQueryset(self, filters, order_by, queryset) ==
    LET queryset1 == IF queryset = NoneQuerySet /\ SelfQueryset(self) = NoneQuerySet
                     THEN QuerySet("all", "fetch") ELSE queryset
    IN QuerySetReportGetQueryset(self, filters, order_by, queryset1)

\* ModelReport.__init__ (base.py:192-194): the instance attribute set at construction
ModelReportInitQueryset(self) == QuerySet("all", "init")

\* mr: the report class (cls_queryset, model), its instance and the last call
ModelReportClass(cls_queryset, model) ==
    [cls_queryset |-> cls_queryset, model |-> model,
     constructed |-> FALSE, init_raised |-> FALSE, inst_queryset |-> NoneQuerySet,
     op |-> "None", explicit |-> FALSE, raised |-> FALSE, queryset |-> NoneQuerySet]

ModelReportIdle == [ModelReportClass(NoneQuerySet, "None") EXCEPT !.init_raised = TRUE]

OtherThanModelReport ==
    <<charts, chart_ret, classes, default_mask, mask_ret, rearr, lk, form_ret, sql>>

\* ModelReport(): None.objects raises AttributeError when no model is set
ModelReport_init ==
    /\ ~mr.constructed /\ ~mr.init_raised
    /\ IF mr.model = "None"
       THEN mr' = [mr EXCEPT !.init_raised = TRUE]
       ELSE mr' = [mr EXCEPT !.constructed = TRUE,
                             !.inst_queryset = ModelReportInitQueryset(mr)]
    /\ UNCHANGED OtherThanModelReport

ModelReport_get_queryset(filters, order_by, queryset) ==
    /\ mr.constructed
    /\ LET out == ModelReportGetQueryset(mr, filters, order_by, queryset) IN
       mr' = [mr EXCEPT !.op = "get_queryset", !.explicit = (queryset # NoneQuerySet),
                        !.raised = out.raised, !.queryset = out.queryset]
    /\ UNCHANGED OtherThanModelReport

\* QuerySetReport.get_rows (base.py:185-187): rows and the total both come from qs
ModelReport_get_rows(filters, order_by) ==
    /\ mr.constructed
    /\ LET out == ModelReportGetQueryset(mr, filters, order_by, NoneQuerySet) IN
       mr' = [mr EXCEPT !.op = "get_rows", !.explicit = FALSE,
                        !.raised = out.raised, !.queryset = out.queryset]
    /\ UNCHANGED OtherThanModelReport

----------------------------------------------------------------------------
(* SQLReport *)

MaxCursors == 2         \* cursors acquired in one run

\* A template: None, or a string made of a prefix and named placeholders.
NoneSql   == [isnone |-> TRUE,  prefix |-> "", params |-> {}]
EmptySql  == [isnone |-> FALSE, prefix |-> "", params |-> {}]
SelectSql == [isnone |-> FALSE, prefix |-> "SELECT * FROM t WHERE q=", params |-> {"q"}]
BareSql   == [isnone |-> FALSE, prefix |-> "", params |-> {"q"}]
SqlTemplates == {NoneSql, EmptySql, SelectSql, BareSql}

\* a string is truthy when it is not empty
TemplateTruthy(t) == ~t.isnone /\ (t.prefix # "" \/ t.params # {})

SqlFilters == UNION {[K -> {"", "1"}] : K \in SUBSET {"q"}}

\* template % filters: KeyError when a placeholder has no filter
CanInterpolate(t, filters) == t.params \subseteq DOMAIN filters
Interpolate(t, filters) == [prefix |-> t.prefix, args |-> [p \in t.params |-> filters[p]]]
NoSql == [prefix |-> "", args |-> <<>>]
SqlTruthy(s) == s.prefix # "" \/ \E p \in DOMAIN s.args : s.args[p] # ""

\* interpolation without the test of the template: None % filters raises TypeError
get_row_sql_NoCheck(self, filters) ==
    IF ~self.rows_sql.isnone /\ CanInterpolate(self.rows_sql, filters)
    THEN [kind |-> "sql", sql |-> Interpolate(self.rows_sql, filters)]
    ELSE [kind |-> "raised", sql |-> NoSql]

\* get_row_sql / get_aggregate_sql: "None", "raised" (KeyError) or the statement
get_row_sql(self, filters) ==
    IF TemplateTruthy(self.rows_sql)
    THEN (IF CanInterpolate(self.rows_sql, filters)
          THEN [kind |-> "sql", sql |-> Interpolate(self.rows_sql, filters)]
          ELSE [kind |-> "raised", sql |-> NoSql])
    ELSE [kind |-> "None", sql |-> NoSql]

get_aggregate_sql(self, filters) ==
    IF TemplateTruthy(self.aggregate_sql)
    THEN (IF CanInterpolate(self.aggregate_sql, filters)
          THEN [kind |-> "sql", sql |-> Interpolate(self.aggregate_sql, filters)]
          ELSE [kind |-> "raised", sql |-> NoSql])
    ELSE [kind |-> "None", sql |-> NoSql]

\* What the database does during one data call: get_cursor() succeeds or
\* raises, execute succeeds or raises, the fetch gives rows, gives None
\* (fetchone on an empty result) or raises.
DbOutcomes == [cursor_ok : BOOLEAN, execute_ok : BOOLEAN, fetch : {"rows", "None", "raises"}]

FetchedRows == <<<<"r1c1", "r1c2">>, <<"r2c1", "r2c2">>>>
FetchedAggregate == <<<<"total", "2">>>>

\* Outcome of a data call: the value returned (or raised), the cursors it
\* acquired with their state at exit, the statements it executed. The
\* value is held as (rows, agg): a row list fills rows, an aggregate list
\* fills agg, the pair of get_rows fills both.
NoResult == [rows |-> <<>>, agg |-> <<>>]
SqlOut(raised, result, cursors, executed) ==
    [raised |-> raised, result |-> result, cursors |-> cursors, executed |-> executed]

\* the part of get_row_data / get_aggregate_data after "if not sql: return []";
\* no exit path calls cursor.close()
RunSql(stmt, db, fetched, none_ok) ==
    IF stmt.kind = "raised" THEN SqlOut(TRUE, NoResult, <<>>, <<>>)
    ELSE IF stmt.kind = "None" \/ ~SqlTruthy(stmt.sql) THEN SqlOut(FALSE, NoResult, <<>>, <<>>)
    ELSE IF ~db.cursor_ok THEN SqlOut(TRUE, NoResult, <<>>, <<>>)
    ELSE IF ~db.execute_ok THEN SqlOut(TRUE, NoResult, <<"open">>, <<>>)
    ELSE IF db.fetch = "raises" \/ (db.fetch = "None" /\ ~none_ok)
         THEN SqlOut(TRUE, NoResult, <<"open">>, <<stmt.sql>>)
    ELSE SqlOut(FALSE, IF db.fetch = "None" THEN NoResult ELSE fetched, <<"open">>, <<stmt.sql>>)

\* SQLReport.get_row_data (base.py:223-229); fetchall gives [] on an empty result
GetRowData(self, filters, db) ==
    RunSql(get_row_sql(self, filters), db, [NoResult EXCEPT !.rows = FetchedRows], TRUE)

\* SQLReport.get_aggregate_data (base.py:231-242); len(None) raises TypeError
GetAggregateData(self, filters, db) ==
    RunSql(get_aggregate_sql(self, filters), db, [NoResult EXCEPT !.agg = FetchedAggregate], FALSE)

\* SQLReport.get_rows (base.py:254-257)
GetRows(self, filters, db1, db2) ==
    LET rows == GetRowData(self, filters, db1) IN
    IF rows.raised THEN rows
    ELSE LET agg == GetAggregateData(self, filters, db2) IN
         SqlOut(agg.raised,
                IF agg.raised THEN NoResult
                ELSE [rows |-> rows.result.rows, agg |-> agg.result.agg],
                rows.cursors \o agg.cursors, rows.executed \o agg.executed)

SQLReportClass(rows_sql, aggregate_sql) ==
    [rows_sql |-> rows_sql, aggregate_sql |-> aggregate_sql,
     cursors |-> <<>>, executed |-> <<>>,
     op |-> "None", raised |-> FALSE, result |-> NoResult]

SQLReportIdle == SQLReportClass(NoneSql, NoneSql)

OtherThanSql == <<charts, chart_ret, classes, default_mask, mask_ret, rearr, lk, form_ret, mr>>

SqlCall(op, out) ==
    /\ Len(sql.cursors) + Len(out.cursors) <= MaxCursors
    /\ sql' = [sql EXCEPT !.op = op, !.raised = out.raised, !.result = out.result,
                          !.cursors = @ \o out.cursors, !.executed = @ \o out.executed]
    /\ UNCHANGED OtherThanSql

get_row_data(filters, db) == SqlCall("get_row_data", GetRowData(sql, filters, db))

get_aggregate_data(filters, db) == SqlCall("get_aggregate_data", GetAggregateData(sql, filters, db))

get_rows(filters, db1, db2) == SqlCall("get_rows", GetRows(sql, filters, db1, db2))

----------------------------------------------------------------------------
(* Specifications, one per part of base.py *)

ChartsIdle == /\ charts = <<>> /\ chart_ret = NoChartCall
ClassesIdle == classes = <<ReportClass>>
MaskIdle == /\ default_mask = <<>> /\ mask_ret = NoMaskCall

\* a report with its declared chart groups; get_charts is called on it
ChartInit ==
    /\ charts \in SeqsUpTo(ChartGroups, MaxGroups)
    /\ chart_ret = NoChartCall
    /\ ClassesIdle /\ MaskIdle /\ rearr = RearrIdle /\ lk = LookupIdle
    /\ form_ret = NoFormCall /\ mr = ModelReportIdle /\ sql = SQLReportIdle
ChartNext == \E output_format \in OutputFormats : get_charts(output_format)
ChartSpec == ChartInit /\ [][ChartNext]_vars

\* Report is defined by the module; further classes are defined below it
MetaInit ==
    /\ ClassesIdle
    /\ ChartsIdle /\ MaskIdle /\ rearr = RearrIdle /\ lk = LookupIdle
    /\ form_ret = NoFormCall /\ mr = ModelReportIdle /\ sql = SQLReportIdle
MetaNext == \E parent_index \in DOMAIN classes : \E body \in ClassBodies :
                define_class(parent_index, body)
MetaSpec == MetaInit /\ [][MetaNext]_vars

MaskInit ==
    /\ default_mask \in DefaultMasks
    /\ mask_ret = NoMaskCall
    /\ ChartsIdle /\ ClassesIdle /\ rearr = RearrIdle /\ lk = LookupIdle
    /\ form_ret = NoFormCall /\ mr = ModelReportIdle /\ sql = SQLReportIdle
MaskNext == get_default_mask
MaskSpec == MaskInit /\ [][MaskNext]_vars

RearrInit ==
    /\ \E column_indices \in ColumnIndices, schema \in Schemas, data \in DataSets,
          args \in ExtraArgs :
          rearr = [RearrIdle EXCEPT !.column_indices = column_indices, !.schema = schema,
                                    !.data = data, !.args = args]
    /\ ChartsIdle /\ ClassesIdle /\ MaskIdle /\ lk = LookupIdle
    /\ form_ret = NoFormCall /\ mr = ModelReportIdle /\ sql = SQLReportIdle
RearrNext == \E chart \in Charts : decorated_callable(chart)
RearrSpec == RearrInit /\ [][RearrNext]_vars

LookupInit ==
    /\ \E model \in Models, parts \in Lookups : lk = LookupStart(model, parts)
    /\ ChartsIdle /\ ClassesIdle /\ MaskIdle /\ rearr = RearrIdle
    /\ form_ret = NoFormCall /\ mr = ModelReportIdle /\ sql = SQLReportIdle
LookupNext == get_lookup_field
LookupSpec == LookupInit /\ [][LookupNext]_vars
\* a started call runs on: the interpreter executes the recursive call it reaches
LookupFairSpec == LookupSpec /\ WF_vars(get_lookup_field)

FormInit ==
    /\ form_ret = NoFormCall
    /\ ChartsIdle /\ ClassesIdle /\ MaskIdle /\ rearr = RearrIdle /\ lk = LookupIdle
    /\ mr = ModelReportIdle /\ sql = SQLReportIdle
FormNext ==
    \/ \E data \in FormData : Report_get_filter_form(data)
    \/ \E list_filter \in ListFilters, queryset_model \in Models \cup {"None"},
          no_control \in {{}, {"manager"}}, data \in FormData :
          QuerySetReport_get_filter_form(list_filter, queryset_model, no_control, data)
    \/ \E query_params \in QueryParamLists, data \in FormData :
          SQLReport_get_filter_form(query_params, data)
FormSpec == FormInit /\ [][FormNext]_vars

ModelReportInit ==
    /\ \E cls_queryset \in {NoneQuerySet, ConfiguredQuerySet}, model \in Models \cup {"None"} :
          mr = ModelReportClass(cls_queryset, model)
    /\ ChartsIdle /\ ClassesIdle /\ MaskIdle /\ rearr = RearrIdle /\ lk = LookupIdle
    /\ form_ret = NoFormCall /\ sql = SQLReportIdle
ModelReportNext ==
    \/ ModelReport_init
    \/ \E filters \in FilterMaps, order_by \in OrderBys,
          queryset \in {NoneQuerySet, ExplicitQuerySet} :
          ModelReport_get_queryset(filters, order_by, queryset)
    \/ \E filters \in FilterMaps, order_by \in OrderBys : ModelReport_get_rows(filters, order_by)
ModelReportSpec == ModelReportInit /\ [][ModelReportNext]_vars

SqlInit ==
    /\ \E rows_sql \in SqlTemplates, aggregate_sql \in SqlTemplates :
          sql = SQLReportClass(rows_sql, aggregate_sql)
    /\ ChartsIdle /\ ClassesIdle /\ MaskIdle /\ rearr = RearrIdle /\ lk = LookupIdle
    /\ form_ret = NoFormCall /\ mr = ModelReportIdle
SqlNext ==
    \/ \E filters \in SqlFilters, db \in DbOutcomes : get_row_data(filters, db)
    \/ \E filters \in SqlFilters, db \in DbOutcomes : get_aggregate_data(filters, db)
    \/ \E filters \in SqlFilters, db1 \in DbOutcomes, db2 \in DbOutcomes :
          get_rows(filters, db1, db2)
SqlSpec == SqlInit /\ [][SqlNext]_vars

----------------------------------------------------------------------------
(* Properties *)

\* the positions (group, index) of the declared chart callables
ChartPositions == {<<g, i>> : g \in DOMAIN charts, i \in 1..MaxGroupLen} \cap
                  {p \in (DOMAIN charts) \X (1..MaxGroupLen) : p[2] <= Len(charts[p[1]].charts)}
ChartAt(p) == charts[p[1]].charts[p[2]]
WrappedAt(p) == columns_decorator(charts[p[1]].column_indices, ChartAt(p))

\* (a) of the claim: no restriction, or a predicate true of the chart, or a
\* set of classes the output format is an instance of
FilterAdmits(format_filter, chart, output_format) ==
    \/ ~format_filter.truthy
    \/ format_filter.callable /\ chart \in format_filter.accepts
    \/ format_filter.iterable /\ \E cls \in format_filter.items : IsInstance(output_format, cls)

SelectedPositions ==
    {p \in ChartPositions :
        /\ FilterAdmits(charts[p[1]].chart_filter, ChartAt(p), chart_ret.output_format)
        /\ can_embed(chart_ret.output_format, ChartAt(p))}
DeclaredBefore(q, p) == q[1] < p[1] \/ (q[1] = p[1] /\ q[2] < p[2])
RankOf(p) == 1 + Cardinality({q \in SelectedPositions : DeclaredBefore(q, p)})

\* C9: the result of get_charts lists the selected charts in declaration
\* order (groups in order, charts of a group in order), each selected
\* declaration exactly once, and nothing else.
C9_DeclarationOrder ==
    chart_ret.called =>
        /\ Len(chart_ret.result) = Cardinality(SelectedPositions)
        /\ \A p \in SelectedPositions : chart_ret.result[RankOf(p)] = WrappedAt(p)

\* two groups contribute different charts and a group in between or around contributes none
C9_Witness ==
    /\ chart_ret.called
    /\ Len(chart_ret.result) >= 2
    /\ chart_ret.result[1] # chart_ret.result[Len(chart_ret.result)]
    /\ \E p \in SelectedPositions, q \in SelectedPositions : p[1] # q[1]
    /\ \E p \in ChartPositions : p \notin SelectedPositions

\* C2: a report class that authors exactly one of labels/columns has, after
\* its construction, both non-empty and labels == [c[0] for c in columns].
C2_LabelsColumnsConsistent ==
    \A n \in DOMAIN classes :
        LET c == classes[n] IN
        (n > 1 /\ Cardinality(c.authored) = 1 /\ \E a \in c.authored : c[a] # <<>>) =>
            /\ c.labels # <<>>
            /\ c.columns # <<>>
            /\ c.labels = [i \in 1..Len(c.columns) |-> c.columns[i][1]]

\* C3: get_default_mask returns a mapping over the keys of default_mask where
\* a producer is replaced by the value it returns (falsy or not) and any other
\* value is kept.
C3_MaskResolved ==
    mask_ret.called =>
        /\ DOMAIN mask_ret.m = DOMAIN default_mask
        /\ \A k \in DOMAIN default_mask :
              mask_ret.m[k] = IF default_mask[k].callable
                              THEN Plain(default_mask[k].value)
                              ELSE default_mask[k]

\* C4: after get_row_data, get_aggregate_data or get_rows has returned or
\* failed, no cursor it acquired is left open.
C4_CursorsClosed ==
    sql.op # "None" => \A c \in DOMAIN sql.cursors : sql.cursors[c] = "closed"

\* C5: the form that get_filter_form returns has been cleaned, for every
\* strategy; fields with invalid data carry errors.
C5_FormCleaned ==
    (form_ret.called /\ ~form_ret.raised) =>
        /\ form_ret.form.cleaned
        /\ form_ret.form.errors = form_ret.form.fields \cap form_ret.form.data

\* C6: with non-empty column_indices (all within range), the callable made
\* by rearrange_columns calls the chart exactly once, with
\* [schema[i] for i in column_indices], [[row[i] for i in column_indices] for
\* row in data] and the unchanged extra arguments, returns what the chart
\* returns, and leaves the caller's schema and data as they were.
C6_Rearranged ==
    [][(rearr'.called /\ ~rearr.called /\ rearr.column_indices # <<>>
        /\ SchemaInRange(rearr.column_indices, rearr.schema)
        /\ DataInRange(rearr.column_indices, rearr.data)) =>
          /\ ~rearr'.raised
          /\ Len(rearr'.calls) = 1
          /\ LET call == rearr'.calls[1]
                 ci == rearr.column_indices IN
             /\ Len(call.schema) = Len(ci)
             /\ \A k \in DOMAIN ci : call.schema[k] = PyIndex(rearr.schema, ci[k])
             /\ Len(call.data) = Len(rearr.data)
             /\ \A r \in DOMAIN rearr.data :
                   /\ Len(call.data[r]) = Len(ci)
                   /\ \A k \in DOMAIN ci : call.data[r][k] = PyIndex(rearr.data[r], ci[k])
             /\ call.args = rearr.args
             /\ rearr'.result.schema = call.schema
             /\ rearr'.result.data = call.data
             /\ rearr'.result.args = call.args
          /\ rearr'.schema = rearr.schema
          /\ rearr'.data = rearr.data
          /\ rearr'.column_indices = rearr.column_indices]_vars

\* the example of the documentation: indices [2,0] on [a,b,c] and [[1,2,3],[4,5,6]]
C6_Witness ==
    /\ rearr.called
    /\ rearr.column_indices = <<2, 0>>
    /\ rearr.schema = <<"a", "b", "c">>
    /\ rearr.data = <<<<1, 2, 3>>, <<4, 5, 6>>>>
    /\ rearr.calls = <<[schema |-> <<"c", "a">>, data |-> <<<<3, 1>>, <<6, 4>>>>,
                        args |-> rearr.args]>>

\* C7: without a rows_sql (aggregate_sql) template, get_row_data
\* (get_aggregate_data) returns [] for every filters mapping, acquires no
\* cursor and executes nothing; without both, get_rows returns ([], []).
C7_NoTemplateNoFetch ==
    [][/\ (sql'.op = "get_row_data" /\ sql' # sql /\ ~TemplateTruthy(sql.rows_sql)) =>
            (~sql'.raised /\ sql'.result = NoResult
             /\ sql'.cursors = sql.cursors /\ sql'.executed = sql.executed)
       /\ (sql'.op = "get_aggregate_data" /\ sql' # sql /\ ~TemplateTruthy(sql.aggregate_sql)) =>
            (~sql'.raised /\ sql'.result = NoResult
             /\ sql'.cursors = sql.cursors /\ sql'.executed = sql.executed)
       /\ (sql'.op = "get_rows" /\ sql' # sql
             /\ ~TemplateTruthy(sql.rows_sql) /\ ~TemplateTruthy(sql.aggregate_sql)) =>
            (~sql'.raised /\ sql'.result = NoResult
             /\ sql'.cursors = sql.cursors /\ sql'.executed = sql.executed)]_vars

\* get_rows has returned ([], []) on a report without templates
C7_Witness ==
    /\ sql.op = "get_rows"
    /\ sql.rows_sql = NoneSql
    /\ ~TemplateTruthy(sql.aggregate_sql)
    /\ sql.result = NoResult /\ ~sql.raised
    /\ sql.cursors = <<>>

\* C8: when the class configures a queryset, get_queryset/get_rows without an
\* explicit queryset work on the configured one; when it configures none,
\* model.objects.all() is taken at fetch time.
C8_ConfiguredQuerysetUsed ==
    (mr.op # "None" /\ ~mr.explicit /\ ~mr.raised) =>
        /\ mr.cls_queryset = ConfiguredQuerySet => mr.queryset.base = "configured"
        /\ mr.cls_queryset = NoneQuerySet =>
              (mr.queryset.base = "all" /\ mr.queryset.made = "fetch")

RECURSIVE ModelAlong(_, _, _)
\* the model reached from `model` by following the first n parts as relations
ModelAlong(model, parts, n) ==
    IF n = 0 THEN model
    ELSE Meta[ModelAlong(model, parts, n - 1)][parts[n]].to

\* C10: get_lookup_field ends for every lookup and every relation graph
\* after at most as many calls as the lookup has parts, each call consuming
\* one part; unless a name is unknown, it ends with the first field of the
\* path that is no relation (or the field of the last part) and its model.
C10_LookupTerminates ==
    <>(/\ lk.done
       /\ lk.calls <= Len(lk.original)
       /\ Len(lk.lookup) = Len(lk.original) - (lk.calls - 1)
       /\ ~lk.error =>
            /\ \A n \in 1..(lk.calls - 1) :
                  /\ HasField(ModelAlong(lk.start, lk.original, n - 1), lk.original[n])
                  /\ Meta[ModelAlong(lk.start, lk.original, n - 1)][lk.original[n]].related
            /\ lk.model = ModelAlong(lk.start, lk.original, lk.calls - 1)
            /\ lk.field = Meta[lk.model][lk.original[lk.calls]]
            /\ (~lk.field.related \/ lk.calls = Len(lk.original)))

\* a lookup through the self-referential and the cyclic relation ended after three calls
C10_Witness ==
    /\ lk.done /\ ~lk.error
    /\ lk.original = <<"manager", "department", "head">>
    /\ lk.calls = 3
    /\ lk.model = "Department"
    /\ lk.field.name = "head"

====
